---- MODULE Spec2Model ----
(***************************************************************************)
(* Model of the two event-driven cores of lambrk-frontend:                 *)
(*                                                                         *)
(*   - the token-refresh interceptor (interceptors/auth.interceptor.ts)    *)
(*     together with AuthService (services/auth.service.ts) and the error  *)
(*     interceptor (interceptors/error.interceptor.ts);                    *)
(*   - the STOMP connection manager (services/websocket.service.ts).       *)
(*                                                                         *)
(* Spec            authInterceptorFn driven by a next handler that reports *)
(*                 the backend's HttpErrorResponse (chain = "direct").     *)
(* SpecConfigured  the chain of app.config.ts: authInterceptorFn wrapping  *)
(*                 errorInterceptorFn (chain = "configured").              *)
(* SpecWS          WebSocketService with the session it reads.             *)
(***************************************************************************)
EXTENDS Integers, Sequences, FiniteSets, TLC

\* ------------------------------------------------------------------ bounds
NumReq == 4          \* HTTP requests issued by the UI
MaxIssued == 3       \* token pairs the server issues (login and refresh responses)

Req == 1..NumReq

\* --------------------------------------------------------------- constants
NoToken == 0         \* localStorage.getItem(...) === null
InitialToken == 1    \* the token pair of the login that preceded the first state
Timer == 0           \* owner of the proactive refresh (AuthService.refreshSub)

\* URLs as sequences of path segments (the first one stands for apiBaseUrl).
LoginUrl == <<"host", "api", "auth", "login">>
RegisterUrl == <<"host", "api", "auth", "register">>
RefreshUrl == <<"host", "api", "auth", "refresh">>
PostsUrl == <<"host", "api", "posts">>
NoUrl == <<>>

\* The URLs of AuthService.login and register, and those of the other services
\* (POST /auth/refresh is made by AuthService.refreshToken alone).
LoginUrls == {LoginUrl, RegisterUrl}
ApiUrls == {PostsUrl}

AUTH_ENDPOINTS ==
    {<<"api", "auth", "login">>, <<"api", "auth", "register">>, <<"api", "auth", "refresh">>}

\* String.prototype.includes on segment sequences
Includes(url, ep) ==
    \E i \in 1..Len(url) :
        /\ i + Len(ep) - 1 <= Len(url)
        /\ SubSeq(url, i, i + Len(ep) - 1) = ep

\* isAuthEndpoint comparing with === instead of includes
isAuthEndpoint_exactMatch(url) == url \in AUTH_ENDPOINTS

isAuthEndpoint(url) == \E ep \in AUTH_ENDPOINTS : Includes(url, ep)

\* req.clone({setHeaders: {Authorization: `Bearer ${token}`}}): the header is the token
addToken(header, token) == token

\* The request authInterceptorFn hands to next: its Authorization header.
Dispatch(url, token) ==
    IF isAuthEndpoint(url) THEN NoToken
    ELSE IF token # NoToken THEN addToken(NoToken, token) ELSE NoToken

\* What catchError in authInterceptorFn reads as error.status.  errorInterceptorFn
\* turns every HttpErrorResponse into an ApiError {problem, originalError,
\* isNetworkError}, which has no status property (undefined, here 0).
errorInterceptorFn(status) == 0

StatusSeen(ch, status) ==
    IF ch = "configured" THEN errorInterceptorFn(status) ELSE status

VARIABLES
    chain,               \* "direct" or "configured": what next is for authInterceptorFn
    sess,                \* localStorage tokens and AuthService signals
    timer,               \* AuthService.refreshSub: "off", "armed", "posting"
    isRefreshing,        \* module-level flag of auth.interceptor.ts
    refreshTokenSubject, \* BehaviorSubject<string | null>
    waiters,             \* observers of refreshTokenSubject, in subscription order
    req,                 \* the requests of the other services and where each of them is
                         \* (on: history, the refresh calls outstanding when it began to wait;
                         \*  ord: history, its place among the requests passed to next again
                         \*  by one refreshTokenSubject.next)
    login,               \* the request of AuthService.login / register
    issued,              \* token pairs issued by the server so far
    stranded,            \* history: requests that were waiting when a refresh failed
    refreshHdr           \* history: Authorization header of the last POST /auth/refresh

VARIABLES
    client,              \* WebSocketService.client: a client id, or NoClient (null)
    clients,             \* the STOMP clients created so far, by id
    connectionState,     \* WebSocketService.connectionState
    connectionEvents,    \* the last LogWindow entries of connectionEvents
    reconnectAttempts,   \* WebSocketService.reconnectAttempts
    activeSubscriptions, \* WebSocketService.activeSubscriptions
    reconnectTimers,     \* setTimeout callbacks of scheduleReconnect not yet run
    op                   \* history: the operation of WebSocketService that ran last

authVars ==
    <<chain, sess, timer, isRefreshing, refreshTokenSubject, waiters, req, login,
      issued, stranded, refreshHdr>>

wsVars ==
    <<client, clients, connectionState, connectionEvents, reconnectAttempts,
      activeSubscriptions, reconnectTimers, op>>

VARIABLES
    posts,               \* PostService.posts(): the local copy of each post
    serverVote,          \* the vote of the signed-in user the server holds, by post
    otherVote,           \* the vote of another user the server holds, by post
    calls,               \* the PostService.votePost calls and where each of them is
                         \* (raced: history, a real-time update or the acknowledgment of
                         \*  another call changed the post since this call's snapshot)
    overlapped,          \* history: a votePost began while another was in flight
    started              \* history: the votePost calls begun so far

voteVars == <<posts, serverVote, otherVote, calls, overlapped, started>>

vars == <<authVars, wsVars, voteVars>>

Users == {"alice"}
NoUser == "null"
FirstUser == "alice"   \* the user of the login that preceded the first state

NoSession == [access |-> NoToken, refresh |-> NoToken, user |-> NoUser, auth |-> FALSE]

\* What AuthService.handleAuthSuccess stores
StoredSession(tok, user) == [access |-> tok, refresh |-> tok, user |-> user, auth |-> TRUE]

NewRequest ==
    [st |-> "idle", url |-> NoUrl, hdr |-> NoToken, role |-> "none", on |-> {}, ord |-> 0, out |-> 0]

NoLogin == [st |-> "idle", url |-> NoUrl, hdr |-> NoToken]

InitAuth ==
    /\ sess = StoredSession(InitialToken, FirstUser)
    /\ timer = "armed"
    /\ isRefreshing = FALSE
    /\ refreshTokenSubject = NoToken
    /\ waiters = <<>>
    /\ req = [r \in Req |-> NewRequest]
    /\ login = NoLogin
    /\ issued = InitialToken
    /\ stranded = {}
    /\ refreshHdr = NoToken

\* ---------------------------------------------------------- WebSocketService
MaxClients == 2      \* bound: STOMP clients connect() creates
MaxRegistry == 10    \* bound: length of activeSubscriptions, subscriptions of a client
MaxTimers == 2       \* bound: reconnect timers pending at once
LogWindow == 2       \* bound: entries of connectionEvents kept (the newest ones)

maxReconnectAttempts == 5
NoClient == 0
ClientIds == 1..MaxClients

\* A client not created yet
NoStomp == [phase |-> "none", subs |-> <<>>]

InitService ==
    /\ client = NoClient
    /\ clients = [c \in ClientIds |-> NoStomp]
    /\ connectionState = "DISCONNECTED"
    /\ connectionEvents = <<>>
    /\ reconnectAttempts = 0
    /\ activeSubscriptions = <<>>
    /\ reconnectTimers = 0
    /\ op = <<"constructor">>

\* -------------------------------------------------------------- PostService
MaxCalls == 2        \* bound: votePost calls in flight at once
MaxVotes == 2        \* bound: votePost calls begun in a behaviour

Posts == {1}
CallIds == 1..MaxCalls

NoVote == "null"
VoteTypes == {"UPVOTE", "DOWNVOTE"}

\* posts = signal<Post[]>([]): no post in the list
NoPost ==
    [loaded |-> FALSE, score |-> 0, upvoteCount |-> 0, downvoteCount |-> 0,
     userVote |-> NoVote]

NoCall ==
    [st |-> "idle", postId |-> 0, voteType |-> NoVote, base |-> NoPost, updated |-> NoPost,
     raced |-> FALSE]

InitPosts ==
    /\ posts = [p \in Posts |-> NoPost]
    /\ serverVote = [p \in Posts |-> NoVote]
    /\ otherVote = [p \in Posts |-> NoVote]
    /\ calls = [v \in CallIds |-> NoCall]
    /\ overlapped = FALSE
    /\ started = 0

Init ==
    /\ chain = "direct"
    /\ InitAuth
    /\ InitService
    /\ InitPosts

InitConfigured ==
    /\ chain = "configured"
    /\ InitAuth
    /\ InitService
    /\ InitPosts

\* ------------------------------------------------------------ AuthService

RefreshError == -1   \* the error refreshToken() throws, as the caller's outcome

\* Array.prototype.filter / unsubscribing one observer
Without(seq, r) == SelectSeq(seq, LAMBDA x : x # r)

InSeq(seq, x) == \E i \in 1..Len(seq) : seq[i] = x

\* The place of observer x in the observers array
IndexOf(seq, x) == CHOOSE i \in 1..Len(seq) : seq[i] = x

\* AuthService.handleAuthSuccess: store the tokens and the user, re-arm the timer
\* (scheduleTokenRefresh unsubscribes refreshSub, which aborts a POST it had made)
handleAuthSuccess(tok, user) ==
    /\ sess' = StoredSession(tok, user)
    /\ timer' = "armed"

\* AuthService.handleLogout: clearTokens, signals reset, refreshSub unsubscribed
handleLogout ==
    /\ sess' = NoSession
    /\ timer' = "off"

\* --------------------------------------------------- authInterceptorFn

\* Requests whose refresh call (POST /auth/refresh) was made and has not settled
RefreshesByRequests == {r \in Req : req[r].st = "refreshing"}

\* A service issues request r for url u; authInterceptorFn passes it to next.
Send(r, u) ==
    /\ req[r].st = "idle"
    /\ \A q \in Req : q < r => req[q].st # "idle"
    /\ req' = [req EXCEPT ![r] = [@ EXCEPT !.st = "sent", !.url = u,
                                           !.hdr = Dispatch(u, sess.access)]]
    /\ UNCHANGED <<wsVars, voteVars, chain, sess, timer, isRefreshing, refreshTokenSubject, waiters, login,
                   issued, stranded, refreshHdr>>

\* AuthService.login / register: http.post passes through authInterceptorFn
LoginSend(u) ==
    /\ login.st = "idle"
    /\ issued < MaxIssued
    /\ login' = [st |-> "sent", url |-> u, hdr |-> Dispatch(u, sess.access)]
    /\ UNCHANGED <<wsVars, voteVars, chain, sess, timer, isRefreshing, refreshTokenSubject, waiters, req,
                   issued, stranded, refreshHdr>>

\* tap(res => handleAuthSuccess(res)) of login / register
LoginOk ==
    /\ login.st = "sent"
    /\ issued < MaxIssued
    /\ handleAuthSuccess(issued + 1, FirstUser)
    /\ issued' = issued + 1
    /\ login' = NoLogin
    /\ UNCHANGED <<wsVars, voteVars, chain, isRefreshing, refreshTokenSubject, waiters, req,
                   stranded, refreshHdr>>

\* An error response to login / register: authInterceptorFn returned next(req) for
\* an auth endpoint, so no catchError of the interceptor sees it.
LoginError ==
    /\ login.st = "sent"
    /\ isAuthEndpoint(login.url)
    /\ login' = NoLogin
    /\ UNCHANGED <<wsVars, voteVars, chain, sess, timer, isRefreshing, refreshTokenSubject, waiters, req,
                   issued, stranded, refreshHdr>>

\* next answers request r (first dispatch or re-dispatch) with a response.  The
\* request that started a refresh completes inside handle401's pipe, so finalize
\* clears the flag.
RespondOk(r) ==
    /\ req[r].st \in {"sent", "retry"}
    /\ req' = [req EXCEPT ![r] = [@ EXCEPT !.st = "done", !.out = 200, !.hdr = NoToken,
                                           !.role = "none", !.ord = 0]]
    /\ isRefreshing' = IF req[r].role = "init" THEN FALSE ELSE isRefreshing
    /\ UNCHANGED <<wsVars, voteVars, chain, sess, timer, refreshTokenSubject, waiters, login, issued, stranded, refreshHdr>>

\* handle401, first branch, when refreshToken() finds no refresh token: throwError
\* runs catchError (flag cleared, logout) before handle401's caller resumes.
Handle401NoRefreshToken(r, s) ==
    /\ isRefreshing' = FALSE
    /\ refreshTokenSubject' = NoToken
    /\ handleLogout
    /\ req' = [req EXCEPT ![r] = [@ EXCEPT !.st = "failed", !.out = RefreshError,
                                           !.hdr = NoToken]]
    /\ UNCHANGED <<waiters, refreshHdr>>

\* handle401, first branch: the flag is set and POST /auth/refresh is made
Handle401StartRefresh(r, s) ==
    /\ isRefreshing' = TRUE
    /\ refreshTokenSubject' = NoToken
    /\ refreshHdr' = Dispatch(RefreshUrl, sess.access)
    /\ req' = [req EXCEPT ![r] = [@ EXCEPT !.st = "refreshing", !.role = "init"]]
    /\ UNCHANGED <<sess, timer, waiters>>

\* handle401, second branch: wait on refreshTokenSubject (a BehaviorSubject replays
\* its current value, so a non-null value re-dispatches at once)
Handle401Wait(r, s) ==
    /\ IF refreshTokenSubject # NoToken
       THEN /\ req' = [req EXCEPT ![r] = [@ EXCEPT !.st = "retry", !.role = "wait",
                           !.hdr = addToken(@, refreshTokenSubject), !.ord = 1]]
            /\ UNCHANGED waiters
       ELSE /\ req' = [req EXCEPT ![r] = [@ EXCEPT !.st = "waiting", !.role = "wait",
                                                  !.on = RefreshesByRequests]]
            /\ waiters' = Append(waiters, r)
    /\ UNCHANGED <<sess, timer, isRefreshing, refreshTokenSubject, refreshHdr>>

handle401(r, s) ==
    IF ~isRefreshing
    THEN IF sess.refresh = NoToken
         THEN Handle401NoRefreshToken(r, s)
         ELSE Handle401StartRefresh(r, s)
    ELSE Handle401Wait(r, s)

\* The error passes to the caller unchanged
ThrowToCaller(r, s) ==
    /\ req' = [req EXCEPT ![r] = [@ EXCEPT !.st = "failed", !.out = s, !.hdr = NoToken,
                                           !.role = "none", !.ord = 0]]
    /\ UNCHANGED <<sess, timer, isRefreshing, refreshTokenSubject, waiters,
                   refreshHdr>>

\* The re-dispatched request of the request that started the refresh fails: the
\* error reaches catchError of handle401's pipe (flag cleared, authService.logout())
RetryOfInitiatorFails(r, s) ==
    /\ req' = [req EXCEPT ![r] = [@ EXCEPT !.st = "failed", !.out = s, !.hdr = NoToken,
                                           !.role = "none", !.ord = 0]]
    /\ isRefreshing' = FALSE
    /\ handleLogout
    /\ UNCHANGED <<refreshTokenSubject, waiters, refreshHdr>>

\* catchError wrapped around the re-dispatch as well as around the first dispatch
RespondError_retryIntercepted(r, s) ==
    /\ req[r].st \in {"sent", "retry"}
    /\ IF ~isAuthEndpoint(req[r].url) /\ StatusSeen(chain, s) = 401
       THEN handle401(r, s)
       ELSE ThrowToCaller(r, s)
    /\ UNCHANGED <<wsVars, voteVars, chain, login, issued, stranded>>

\* next answers request r with an error of HTTP status s
RespondError(r, s) ==
    /\ req[r].st \in {"sent", "retry"}
    /\ IF req[r].st = "sent"
       THEN IF ~isAuthEndpoint(req[r].url) /\ StatusSeen(chain, s) = 401
            THEN handle401(r, s)
            ELSE ThrowToCaller(r, s)
       ELSE IF req[r].role = "init"
            THEN RetryOfInitiatorFails(r, s)
            ELSE ThrowToCaller(r, s)
    /\ UNCHANGED <<wsVars, voteVars, chain, login, issued, stranded>>

\* Subject.next notifying its observers last subscribed first
Redispatched_lastFirst(o, tok) ==
    [r \in Req |->
        IF InSeq(waiters, r)
        THEN [req[r] EXCEPT !.st = "retry", !.hdr = addToken(@, tok), !.on = {},
                            !.ord = Len(waiters) + 1 - IndexOf(waiters, r)]
        ELSE IF r = o
        THEN [req[r] EXCEPT !.st = "retry", !.hdr = addToken(@, tok), !.on = {},
                            !.ord = Len(waiters) + 1]
        ELSE req[r]]

\* The requests re-dispatched when refreshTokenSubject.next(tok) runs and then
\* next(addToken(req, tok)) for the request o that started the refresh
Redispatched(o, tok) ==
    [r \in Req |->
        IF InSeq(waiters, r)
        THEN [req[r] EXCEPT !.st = "retry", !.hdr = addToken(@, tok), !.on = {},
                            !.ord = IndexOf(waiters, r)]
        ELSE IF r = o
        THEN [req[r] EXCEPT !.st = "retry", !.hdr = addToken(@, tok), !.on = {},
                            !.ord = Len(waiters) + 1]
        ELSE req[r]]

\* POST /auth/refresh made by owner o (a request, or the timer) succeeds
RefreshSucceeds(o) ==
    /\ issued < MaxIssued
    /\ IF o = Timer THEN timer = "posting" ELSE req[o].st = "refreshing"
    /\ issued' = issued + 1
    /\ handleAuthSuccess(issued + 1, FirstUser)
    /\ IF o = Timer
       THEN UNCHANGED <<isRefreshing, refreshTokenSubject, waiters, req>>
       ELSE /\ isRefreshing' = FALSE
            /\ refreshTokenSubject' = issued + 1
            /\ waiters' = <<>>
            /\ req' = Redispatched(o, issued + 1)
    /\ UNCHANGED <<wsVars, voteVars, chain, login, stranded, refreshHdr>>

\* POST /auth/refresh made by owner o fails: refreshToken's catchError logs out;
\* for a request, handle401's catchError clears the flag and logs out again
RefreshFails(o) ==
    /\ IF o = Timer THEN timer = "posting" ELSE req[o].st = "refreshing"
    /\ handleLogout
    /\ IF o = Timer
       THEN UNCHANGED <<isRefreshing, req, stranded>>
       ELSE /\ isRefreshing' = FALSE
            /\ req' = [req EXCEPT ![o] = [@ EXCEPT !.st = "failed", !.out = RefreshError,
                                                   !.hdr = NoToken, !.role = "none"]]
            /\ stranded' = stranded \cup {r \in Req : InSeq(waiters, r)}
    /\ UNCHANGED <<wsVars, voteVars, chain, refreshTokenSubject, waiters, login, issued,
                   refreshHdr>>

\* scheduleTokenRefresh's timer fires: switchMap(() => this.refreshToken())
TimerFires ==
    /\ timer = "armed"
    /\ IF sess.refresh = NoToken
       THEN /\ handleLogout
            /\ UNCHANGED refreshHdr
       ELSE /\ timer' = "posting"
            /\ refreshHdr' = Dispatch(RefreshUrl, sess.access)
            /\ UNCHANGED sess
    /\ UNCHANGED <<wsVars, voteVars, chain, isRefreshing, refreshTokenSubject, waiters, req, login, issued, stranded>>

\* The caller of request r unsubscribes: the request, or the refresh call it had
\* made, is aborted; for the request that started a refresh finalize clears the flag
Cancel(r) ==
    /\ req[r].st \in {"sent", "refreshing", "waiting", "retry"}
    /\ req' = [req EXCEPT ![r] = [@ EXCEPT !.st = "cancelled", !.hdr = NoToken,
                                           !.role = "none", !.on = {}, !.ord = 0]]
    /\ waiters' = Without(waiters, r)
    /\ isRefreshing' = IF req[r].role = "init" THEN FALSE ELSE isRefreshing
    /\ UNCHANGED <<wsVars, voteVars, chain, sess, timer, refreshTokenSubject, login, issued,
                   stranded, refreshHdr>>

\* AuthService.logout() from the UI (App.onLogout)
Logout ==
    /\ sess.auth
    /\ handleLogout
    /\ UNCHANGED <<wsVars, voteVars, chain, isRefreshing, refreshTokenSubject, waiters, req, login, issued, stranded, refreshHdr>>

Owners == Req \cup {Timer}

Next ==
    \/ \E r \in Req, u \in ApiUrls : Send(r, u)
    \/ \E u \in LoginUrls : LoginSend(u)
    \/ LoginOk
    \/ LoginError
    \/ \E r \in Req : RespondOk(r)
    \/ \E r \in Req, s \in {401, 500} : RespondError(r, s)
    \/ \E o \in Owners : RefreshSucceeds(o)
    \/ \E o \in Owners : RefreshFails(o)
    \/ TimerFires
    \/ \E r \in Req : Cancel(r)
    \/ Logout

Spec == Init /\ [][Next]_vars

\* The steps the network takes by itself: every call in flight (a request, a
\* login, a refresh) is answered, with a response or an error
Responses ==
    \/ \E r \in Req : RespondOk(r)
    \/ \E r \in Req, s \in {401, 500} : RespondError(r, s)
    \/ \E o \in Owners : RefreshSucceeds(o) \/ RefreshFails(o)
    \/ LoginOk
    \/ LoginError

\* Spec with the network answering: callers may stop issuing, cancelling and
\* logging out, and the refresh timer may never fire, but no call stays unanswered
SpecLive == Init /\ [][Next]_vars /\ WF_vars(Responses)

SpecConfigured == InitConfigured /\ [][Next]_vars

\* ---------------------------------------------- Token Refresh Coordinator

OutstandingRefreshes ==
    Cardinality(RefreshesByRequests) + (IF timer = "posting" THEN 1 ELSE 0)

\* Request r has its 401 handled by handle401 in this step
Handles401(r) ==
    /\ req[r].st = "sent"
    /\ \/ req'[r].st \in {"refreshing", "waiting", "retry"}
       \/ req'[r].st = "failed" /\ req'[r].out = RefreshError

\* Request r calls AuthService.refreshToken() in this step
StartsRefresh(r) ==
    /\ req[r].st = "sent"
    /\ \/ req'[r].st = "refreshing"
       \/ req'[r].st = "failed" /\ req'[r].out = RefreshError

\* Request r is passed to next again in this step
Redispatches(r) == req[r].st # "retry" /\ req'[r].st = "retry"

\* C1: of the requests whose 401 is handled between the start of a refresh call and
\* its settling, only the first starts one (a single refreshToken() call): a 401
\* handled while a refresh call of the interceptor is outstanding makes the request
\* wait and starts no refresh, a 401 handled while none is outstanding starts one.
C1_OneRefreshPerWindow ==
    [][\A r \in Req :
          Handles401(r) =>
              IF RefreshesByRequests # {}
              THEN ~StartsRefresh(r) /\ req'[r].st = "waiting"
              ELSE StartsRefresh(r)]_vars

\* C2: at most one POST /auth/refresh is outstanding in every reachable state,
\* whoever made it (handle401 or the proactive refresh timer).
C2_AtMostOneRefreshOutstanding == OutstandingRefreshes <= 1

\* C3: when the refresh call of request o settles, every request waiting on it gets
\* the outcome o gets: all re-dispatched on success, all failed on failure; none is
\* left waiting.
C3_SameOutcomeForAll ==
    [][\A o \in Req :
          (req[o].st = "refreshing" /\ req'[o].st \in {"retry", "failed"}) =>
              \A q \in Req : req[q].st = "waiting" => req'[q].st = req'[o].st]_vars

\* C4: every re-dispatch happens in the step in which a refresh call made by a
\* request succeeds with a new token T; the request that made the call and every
\* request waiting then are re-dispatched with exactly T, which differs from the
\* header they were sent with first, T is the stored access token by then, and a
\* waiter is not released by another refresh call while one it queued on is still
\* outstanding.
C4_RedispatchCarriesNewToken ==
    [][\A r \in Req :
          Redispatches(r) =>
              /\ issued' = issued + 1
              /\ req'[r].hdr = issued'
              /\ req'[r].hdr # req[r].hdr
              /\ sess'.access = issued'
              /\ \E o \in Req : req[o].st = "refreshing" /\ Redispatches(o)
              /\ \A q \in Req : req[q].st = "waiting" =>
                     Redispatches(q) /\ req'[q].hdr = issued'
              /\ (\E o \in req[r].on : req[o].st = "refreshing") =>
                     \E o \in req[r].on : req[o].st = "refreshing" /\ Redispatches(o)]_vars

\* C5: when the refresh call of a request fails the Session is cleared, no refresh
\* call is made in its place, and a request that was waiting on the failed refresh
\* is never re-dispatched afterwards.
C5_RefreshFailureIsTerminal ==
    [][/\ \A o \in Req :
             (req[o].st = "refreshing" /\ req'[o].st = "failed") =>
                 sess' = NoSession /\ \A r \in Req : ~StartsRefresh(r)
       /\ \A q \in stranded : ~Redispatches(q)]_vars

\* C6: with the chain of app.config.ts, a 401 answer to the first dispatch of a
\* request is never what the caller receives: the refresh flow takes it.
C6_401NotSurfaced ==
    [][\A r \in Req :
          (req[r].st = "sent" /\ req'[r].st = "failed") => req'[r].out # 401]_vars

\* C7: a login or register request and the refresh POST are forwarded without an
\* Authorization header and an error on them starts no refresh; every other request
\* is forwarded with the stored access token as its bearer, or unmodified when none
\* is stored.
C7_DispatchAttachesToken ==
    /\ [][\A r \in Req :
             (req[r].st = "idle" /\ req'[r].st = "sent") => req'[r].hdr = sess.access]_vars
    /\ [][(login.st = "idle" /\ login'.st = "sent") => login'.hdr = NoToken]_vars
    /\ [][(login.st = "sent" /\ login'.st = "idle") =>
             isRefreshing' = isRefreshing /\ \A r \in Req : ~StartsRefresh(r)]_vars
    /\ [](refreshHdr = NoToken)

\* C7 witness: while an access token is stored, a login request is in flight without
\* a header and another request is in flight with that token as its bearer.
C7_Witness ==
    /\ sess.access # NoToken
    /\ login.st = "sent" /\ login.url = LoginUrl /\ login.hdr = NoToken
    /\ \E r \in Req : req[r].st = "sent" /\ req[r].hdr = sess.access

\* --------------------------------------------------------- WebSocketService

\* USER_TOPICS and PUBLIC_TOPICS (models/websocket.model.ts)
USER_TOPICS(kind, username) == <<"user", username, "queue", kind>>
PUBLIC_TOPICS_post(postId) == <<"topic", "posts", postId>>
PUBLIC_TOPICS_postComments(postId) == <<"topic", "posts", postId, "comments">>

\* The two keys subscribeToPost subscribes and unsubscribeFromPost unsubscribes
PostKeys(postId) == {PUBLIC_TOPICS_post(postId), PUBLIC_TOPICS_postComments(postId)}

\* The service's own fields and the clients, as the value a handler works on
Service ==
    [state |-> connectionState, events |-> connectionEvents,
     attempts |-> reconnectAttempts, active |-> activeSubscriptions,
     timers |-> reconnectTimers, client |-> client, clients |-> clients]

Becomes(w) ==
    /\ connectionState' = w.state
    /\ connectionEvents' = w.events
    /\ reconnectAttempts' = w.attempts
    /\ activeSubscriptions' = w.active
    /\ reconnectTimers' = w.timers
    /\ client' = w.client
    /\ clients' = w.clients

\* this.connectionEvents.update(events => [...events, event]), newest LogWindow kept
Logged(events, event) ==
    IF Len(events) < LogWindow THEN Append(events, event)
    ELSE Append(Tail(events), event)

setConnectionState(w, state, error, reconnectAttempt) ==
    [w EXCEPT !.state = state,
              !.events = Logged(@, [state |-> state, error |-> error,
                                    reconnectAttempt |-> reconnectAttempt])]

\* this.client?.connected
Connected(w) == w.client # NoClient /\ w.clients[w.client].phase = "connected"

\* subscribe without its early return: the key is registered whatever the client
subscribe_noConnectedCheck(w, destination) ==
    IF w.client = NoClient THEN [w EXCEPT !.active = Append(@, destination)]
    ELSE [w EXCEPT !.clients[w.client].subs = Append(@, destination),
                   !.active = Append(@, destination)]

\* WebSocketService.subscribe
subscribe(w, destination) ==
    IF ~Connected(w) THEN w
    ELSE [w EXCEPT !.clients[w.client].subs = Append(@, destination),
                   !.active = Append(@, destination)]

\* WebSocketService.unsubscribe
unsubscribe(w, destination) ==
    IF ~Connected(w) THEN w
    ELSE [w EXCEPT !.active = Without(@, destination)]

\* WebSocketService.subscribeToUserTopics
subscribeToUserTopics(w, username) ==
    IF username = NoUser THEN w
    ELSE subscribe(subscribe(subscribe(subscribe(subscribe(w,
            USER_TOPICS("notifications", username)),
            USER_TOPICS("karma", username)),
            USER_TOPICS("votes", username)),
            USER_TOPICS("posts", username)),
            USER_TOPICS("comments", username))

\* scheduleReconnect testing > instead of >=
scheduleReconnect_offByOne(w) ==
    IF w.attempts > maxReconnectAttempts
    THEN setConnectionState(w, "ERROR", "Max reconnect attempts reached", 0)
    ELSE [setConnectionState([w EXCEPT !.attempts = @ + 1], "RECONNECTING", "",
                             w.attempts + 1)
            EXCEPT !.timers = @ + 1]

\* WebSocketService.scheduleReconnect
scheduleReconnect(w) ==
    IF w.attempts >= maxReconnectAttempts
    THEN setConnectionState(w, "ERROR", "Max reconnect attempts reached", 0)
    ELSE [setConnectionState([w EXCEPT !.attempts = @ + 1], "RECONNECTING", "",
                             w.attempts + 1)
            EXCEPT !.timers = @ + 1]

\* The id new Client(...) gets
NewClientId(w) == CHOOSE c \in ClientIds : w.clients[c].phase = "none" /\
                      \A d \in ClientIds : d < c => w.clients[d].phase # "none"

\* connect without its first early return
connect_noConnectedCheck(w, token) ==
    IF token = NoToken \/ \A c \in ClientIds : w.clients[c].phase # "none" THEN w
    ELSE [setConnectionState(w, "CONNECTING", "", 0)
            EXCEPT !.client = NewClientId(w),
                   !.clients[NewClientId(w)] = [phase |-> "connecting", subs |-> <<>>]]

\* WebSocketService.connect
connect(w, token) ==
    IF Connected(w) THEN w
    ELSE IF token = NoToken THEN w
    ELSE LET w1 == setConnectionState(w, "CONNECTING", "", 0)
             c == NewClientId(w)
         IN [w1 EXCEPT !.client = c,
                       !.clients[c] = [phase |-> "connecting", subs |-> <<>>]]

\* client.deactivate(): a connected client sends DISCONNECT and reports onDisconnect
\* later; any other one just stops
deactivate(stomp) ==
    [stomp EXCEPT !.phase = IF @ = "connected" THEN "closing" ELSE "dead", !.subs = <<>>]

\* disconnect without this.activeSubscriptions = []
disconnect_keepsRegistry(w) ==
    LET w1 == IF w.client # NoClient
              THEN [w EXCEPT !.clients[w.client] = deactivate(@), !.client = NoClient]
              ELSE w
    IN setConnectionState(w1, "DISCONNECTED", "", 0)

\* WebSocketService.disconnect
disconnect(w) ==
    LET w1 == IF w.client # NoClient
              THEN [w EXCEPT !.clients[w.client] = deactivate(@), !.client = NoClient]
              ELSE w
    IN setConnectionState([w1 EXCEPT !.active = <<>>], "DISCONNECTED", "", 0)

\* connect() creates a client unless it returns early
CreatesClient(w, token) == ~Connected(w) /\ token # NoToken

CanCreate == \E c \in ClientIds : clients[c].phase = "none"

\* k more subscriptions fit the bound
Room(k) ==
    /\ Len(activeSubscriptions) + k <= MaxRegistry
    /\ client # NoClient => Len(clients[client].subs) + k <= MaxRegistry

\* connect() called by the UI (App.ngOnInit)
Connect ==
    /\ CreatesClient(Service, sess.access) => CanCreate
    /\ Becomes(connect(Service, sess.access))
    /\ op' = <<"connect">>
    /\ UNCHANGED <<authVars, voteVars>>

\* The setTimeout callback of scheduleReconnect runs: this.connect()
ReconnectTimerFires ==
    /\ reconnectTimers > 0
    /\ CreatesClient(Service, sess.access) => CanCreate
    /\ Becomes(connect([Service EXCEPT !.timers = @ - 1], sess.access))
    /\ op' = <<"reconnectTimer">>
    /\ UNCHANGED <<authVars, voteVars>>

\* disconnect() called by the UI (App.ngOnDestroy, App.onLogout)
Disconnect ==
    /\ Becomes(disconnect(Service))
    /\ op' = <<"disconnect">>
    /\ UNCHANGED <<authVars, voteVars>>

\* client.onConnect of client c: the STOMP handshake succeeded
OnConnect(c) ==
    /\ clients[c].phase = "connecting"
    /\ Room(5)
    /\ LET w0 == [Service EXCEPT !.clients[c].phase = "connected", !.attempts = 0]
           w1 == setConnectionState(w0, "CONNECTED", "", 0)
       IN Becomes(subscribeToUserTopics(w1, sess.user))
    /\ op' = <<"onConnect", c>>
    /\ UNCHANGED <<authVars, voteVars>>

\* client.onWebSocketError of client c: the transport fails, the connection is lost
OnWebSocketError(c) ==
    /\ clients[c].phase \in {"connecting", "connected"}
    /\ reconnectAttempts < maxReconnectAttempts => reconnectTimers < MaxTimers
    /\ LET w0 == [Service EXCEPT !.clients[c].phase = "down", !.clients[c].subs = <<>>]
           w1 == setConnectionState(w0, "ERROR", "WebSocket connection failed", 0)
       IN Becomes(scheduleReconnect(w1))
    /\ op' = <<"onWebSocketError", c>>
    /\ UNCHANGED <<authVars, voteVars>>

\* client.onStompError of client c: the broker sends ERROR and closes the connection
OnStompError(c) ==
    /\ clients[c].phase \in {"connecting", "connected"}
    /\ LET w0 == [Service EXCEPT !.clients[c].phase = "down", !.clients[c].subs = <<>>]
       IN Becomes(setConnectionState(w0, "ERROR", "stomp", 0))
    /\ op' = <<"onStompError", c>>
    /\ UNCHANGED <<authVars, voteVars>>

\* The socket of client c closes with no error event (the broker goes away, a
\* heartbeat is missed): the service registers no onWebSocketClose, so none of its
\* fields changes
OnWebSocketClose(c) ==
    /\ clients[c].phase \in {"connecting", "connected"}
    /\ clients' = [clients EXCEPT ![c].phase = "down", ![c].subs = <<>>]
    /\ op' = <<"onWebSocketClose", c>>
    /\ UNCHANGED <<authVars, voteVars, client, connectionState, connectionEvents, reconnectAttempts,
                   activeSubscriptions, reconnectTimers>>

\* client.onDisconnect of client c, after deactivate() of a connected client
OnDisconnect(c) ==
    /\ clients[c].phase = "closing"
    /\ LET w0 == [Service EXCEPT !.clients[c].phase = "dead"]
       IN Becomes(setConnectionState(w0, "DISCONNECTED", "", 0))
    /\ op' = <<"onDisconnect", c>>
    /\ UNCHANGED <<authVars, voteVars>>

\* The library's own reconnect (reconnectDelay) of an active client that lost its
\* connection: a new handshake starts, no callback runs
ClientRetries(c) ==
    /\ clients[c].phase = "down"
    /\ clients' = [clients EXCEPT ![c].phase = "connecting"]
    /\ op' = <<"clientRetries", c>>
    /\ UNCHANGED <<authVars, voteVars, client, connectionState, connectionEvents, reconnectAttempts,
                   activeSubscriptions, reconnectTimers>>

\* WebSocketService.subscribeToPost
SubscribeToPost(postId) ==
    /\ Room(2)
    /\ Becomes(subscribe(subscribe(Service, PUBLIC_TOPICS_post(postId)),
                         PUBLIC_TOPICS_postComments(postId)))
    /\ op' = <<"subscribeToPost", postId>>
    /\ UNCHANGED <<authVars, voteVars>>

\* WebSocketService.unsubscribeFromPost (PostDetailComponent.ngOnDestroy)
UnsubscribeFromPost(postId) ==
    /\ Becomes(unsubscribe(unsubscribe(Service, PUBLIC_TOPICS_post(postId)),
                           PUBLIC_TOPICS_postComments(postId)))
    /\ op' = <<"unsubscribeFromPost", postId>>
    /\ UNCHANGED <<authVars, voteVars>>

\* The broker sends a MESSAGE for destination k: a connected client runs the
\* callback it holds for k (the service's Subject.next), and no state of the service
\* changes; without a subscription of a client the message reaches no callback
OnMessage(k) ==
    /\ op' = IF \E c \in ClientIds : clients[c].phase = "connected" /\ InSeq(clients[c].subs, k)
             THEN <<"message", k>>
             ELSE <<"dropped", k>>
    /\ UNCHANGED <<authVars, voteVars, client, clients, connectionState, connectionEvents,
                   reconnectAttempts, activeSubscriptions, reconnectTimers>>

\* A login or register response is stored (AuthService.handleAuthSuccess).  The
\* service only tests the token for presence, so every token is InitialToken here.
SessionStored(user) ==
    /\ ~sess.auth
    /\ handleAuthSuccess(InitialToken, user)
    /\ UNCHANGED <<wsVars, voteVars, chain, isRefreshing, refreshTokenSubject, waiters, req, login,
                   issued, stranded, refreshHdr>>

\* The session ends without the UI's logout (AuthService.handleLogout after a failed
\* refresh)
SessionCleared ==
    /\ sess.auth
    /\ handleLogout
    /\ UNCHANGED <<wsVars, voteVars, chain, isRefreshing, refreshTokenSubject, waiters, req, login,
                   issued, stranded, refreshHdr>>

\* App.onLogout: wsService.disconnect(), then authService.logout()
OnLogout ==
    /\ sess.auth
    /\ Becomes(disconnect(Service))
    /\ op' = <<"disconnect">>
    /\ handleLogout
    /\ UNCHANGED <<voteVars, chain, isRefreshing, refreshTokenSubject, waiters, req, login, issued,
                   stranded, refreshHdr>>

NextWS ==
    \/ Connect
    \/ ReconnectTimerFires
    \/ Disconnect
    \/ \E c \in ClientIds : OnConnect(c)
    \/ \E c \in ClientIds : OnWebSocketError(c)
    \/ \E c \in ClientIds : OnStompError(c)
    \/ \E c \in ClientIds : OnWebSocketClose(c)
    \/ \E c \in ClientIds : OnDisconnect(c)
    \/ \E c \in ClientIds : ClientRetries(c)
    \/ \E p \in Posts : SubscribeToPost(p)
    \/ \E p \in Posts : UnsubscribeFromPost(p)
    \/ \E p \in Posts : \E k \in PostKeys(p) : OnMessage(k)
    \/ \E u \in Users : SessionStored(u)
    \/ SessionCleared
    \/ OnLogout

InitWS ==
    /\ chain = "configured"
    /\ InitAuth
    /\ InitService
    /\ InitPosts

SpecWS == InitWS /\ [][NextWS]_vars

\* -------------------------------------------------------------- PostService

\* The rule of POST /api/votes/post: the first vote creates, the same vote again
\* removes, the opposite vote flips
Toggle(held, voteType) ==
    IF held = NoVote THEN voteType
    ELSE IF held = voteType THEN NoVote
    ELSE voteType

Ups(p) == Cardinality({u \in {serverVote[p]} : u = "UPVOTE"})
            + Cardinality({u \in {otherVote[p]} : u = "UPVOTE"})
Downs(p) == Cardinality({u \in {serverVote[p]} : u = "DOWNVOTE"})
              + Cardinality({u \in {otherVote[p]} : u = "DOWNVOTE"})

\* The post as the server reports it to the signed-in user
ServerPost(p) ==
    [loaded |-> TRUE, score |-> Ups(p) - Downs(p), upvoteCount |-> Ups(p),
     downvoteCount |-> Downs(p), userVote |-> serverVote[p]]

\* VoteService.votePost: the voteType of the request body
VoteService_votePost(voteType) == IF voteType = NoVote THEN "UPVOTE" ELSE voteType

\* PostService.votePost: updatedPost, computed from the snapshot currentPost
PostService_votePost(currentPost, voteType) ==
    LET currentUserVote == currentPost.userVote
        d == IF voteType = NoVote
             THEN IF currentUserVote = "UPVOTE" THEN <<NoVote, -1, -1, 0>>
                  ELSE IF currentUserVote = "DOWNVOTE" THEN <<NoVote, 1, 0, -1>>
                  ELSE <<NoVote, 0, 0, 0>>
             ELSE IF currentUserVote = voteType
             THEN IF voteType = "UPVOTE" THEN <<NoVote, -1, -1, 0>>
                  ELSE <<NoVote, 1, 0, -1>>
             ELSE IF currentUserVote = NoVote
             THEN IF voteType = "UPVOTE" THEN <<voteType, 1, 1, 0>>
                  ELSE <<voteType, -1, 0, 1>>
             ELSE IF voteType = "UPVOTE" THEN <<voteType, 2, 1, -1>>
                  ELSE <<voteType, -2, -1, 1>>
    IN [currentPost EXCEPT !.userVote = d[1],
                           !.score = @ + d[2],
                           !.upvoteCount = @ + d[3],
                           !.downvoteCount = @ + d[4]]

InFlight(v) == calls[v].st \in {"sent", "voted"}

\* calls, once the post p of the list has been replaced by newPost
Raced(cs, p, newPost) ==
    [v \in CallIds |->
        IF cs[v].st \in {"sent", "voted"} /\ cs[v].postId = p /\ newPost # posts[p]
        THEN [cs[v] EXCEPT !.raced = TRUE]
        ELSE cs[v]]

\* PostService.getHotPosts / getNewPosts / getTopPosts: posts.set(response.content)
LoadPosts ==
    /\ posts' = [p \in Posts |-> ServerPost(p)]
    /\ UNCHANGED <<authVars, wsVars, serverVote, otherVote, calls, overlapped, started>>

\* HomeComponent.onVote(post, voteType) for a post of the list: votePost takes its
\* snapshot, computes updatedPost and posts the request
OnVote(postId, apiVoteType) ==
    /\ started < MaxVotes
    /\ started' = started + 1
    /\ sess.auth
    /\ posts[postId].loaded
    /\ \E v \in CallIds :
          /\ calls[v].st = "idle"
          /\ \A w \in CallIds : w < v => calls[w].st # "idle"
          /\ LET post == posts[postId]
                 finalVote == IF post.userVote = apiVoteType THEN NoVote ELSE apiVoteType
             IN calls' = [calls EXCEPT ![v] =
                    [st |-> "sent", postId |-> postId, voteType |-> finalVote,
                     base |-> post, updated |-> PostService_votePost(post, finalVote),
                     raced |-> FALSE]]
    /\ overlapped' = (overlapped \/ \E w \in CallIds : InFlight(w))
    /\ UNCHANGED <<authVars, wsVars, posts, serverVote, otherVote>>

\* The server handles the request of call v
ServerVotes(v) ==
    /\ calls[v].st = "sent"
    /\ serverVote' = [serverVote EXCEPT ![calls[v].postId] =
                          Toggle(@, VoteService_votePost(calls[v].voteType))]
    /\ calls' = [calls EXCEPT ![v].st = "voted"]
    /\ UNCHANGED <<authVars, wsVars, posts, otherVote, overlapped, started>>

\* 200 OK for call v: map(() => ...) of PostService.votePost stores updatedPost
VoteAck(v) ==
    /\ calls[v].st = "voted"
    /\ posts' = [posts EXCEPT ![calls[v].postId] =
                     IF @.loaded THEN calls[v].updated ELSE @]
    /\ calls' = Raced([calls EXCEPT ![v] = NoCall], calls[v].postId,
                      posts'[calls[v].postId])
    /\ UNCHANGED <<authVars, wsVars, serverVote, otherVote, overlapped, started>>

\* The request of call v fails: catchError of PostService.votePost, no post changes
VoteFails(v) ==
    /\ calls[v].st = "sent"
    /\ calls' = [calls EXCEPT ![v] = NoCall]
    /\ UNCHANGED <<authVars, wsVars, posts, serverVote, otherVote, overlapped, started>>

\* Another user votes on the post
OtherUserVotes(p, voteType) ==
    /\ otherVote' = [otherVote EXCEPT ![p] = Toggle(@, voteType)]
    /\ UNCHANGED <<authVars, wsVars, posts, serverVote, calls, overlapped, started>>

\* HomeComponent.setupWebSocketSubscriptions, postUpdates$: the counters of the
\* update replace those of the post in the list
OnPostUpdate(p) ==
    /\ posts[p].loaded
    /\ posts' = [posts EXCEPT ![p] = [@ EXCEPT !.score = ServerPost(p).score,
                                               !.upvoteCount = ServerPost(p).upvoteCount,
                                               !.downvoteCount = ServerPost(p).downvoteCount]]
    /\ calls' = Raced(calls, p, posts'[p])
    /\ UNCHANGED <<authVars, wsVars, serverVote, otherVote, overlapped, started>>

\* HomeComponent.setupWebSocketSubscriptions, voteUpdates$ with targetType POST
OnVoteUpdate(p) ==
    /\ posts[p].loaded
    /\ posts' = [posts EXCEPT ![p] = [@ EXCEPT !.score = ServerPost(p).score,
                                               !.userVote = ServerPost(p).userVote]]
    /\ calls' = Raced(calls, p, posts'[p])
    /\ UNCHANGED <<authVars, wsVars, serverVote, otherVote, overlapped, started>>

NextVote ==
    \/ LoadPosts
    \/ \E p \in Posts, t \in VoteTypes : OnVote(p, t)
    \/ \E v \in CallIds : ServerVotes(v)
    \/ \E v \in CallIds : VoteAck(v)
    \/ \E v \in CallIds : VoteFails(v)
    \/ \E p \in Posts, t \in VoteTypes : OtherUserVotes(p, t)
    \/ \E p \in Posts : OnPostUpdate(p)
    \/ \E p \in Posts : OnVoteUpdate(p)
    \/ Logout

SpecVote == Init /\ [][NextVote]_vars

\* ------------------------------------------- Realtime Connection Manager

Count(seq, x) == Cardinality({i \in 1..Len(seq) : seq[i] = x})

\* The handlers attached for a key: the subscriptions the current client holds
Handlers(key) == IF client = NoClient THEN 0 ELSE Count(clients[client].subs, key)

\* C8: connect(), from the UI or from a reconnect timer, called while the client is
\* connected leaves the connection state, the log, the registry, the attempt counter
\* and the clients as they were.
C8_ConnectWhileConnectedIsNoOp ==
    [][(op' \in {<<"connect">>, <<"reconnectTimer">>} /\ Connected(Service)) =>
          UNCHANGED <<client, clients, connectionState, connectionEvents,
                      reconnectAttempts, activeSubscriptions>>]_vars

\* C8 witness: connect() has just returned and the client it found connected is
\* still the connected one.
C8_Witness ==
    /\ op = <<"connect">>
    /\ Connected(Service)
    /\ connectionState = "CONNECTED"
    /\ activeSubscriptions # <<>>

\* C9: the registry holds every key at most once, a registered key has exactly one
\* handler attached while the client is connected, and subscribing to a registered
\* key changes neither the registry nor the handlers.
C9_RegistryHasNoDuplicates ==
    /\ [](\A i \in 1..Len(activeSubscriptions) :
             /\ Count(activeSubscriptions, activeSubscriptions[i]) = 1
             /\ Connected(Service) => Handlers(activeSubscriptions[i]) = 1)
    /\ [][\A p \in Posts :
             (op' = <<"subscribeToPost", p>> /\
              \A k \in PostKeys(p) : InSeq(activeSubscriptions, k)) =>
                 UNCHANGED <<activeSubscriptions, clients>>]_vars

\* C10: after unsubscribeFromPost(p) returns, neither key of p is in the registry,
\* whatever the connection state, and the other keys are as they were.
C10_UnsubscribeRemovesKey ==
    [][\A p \in Posts :
          op' = <<"unsubscribeFromPost", p>> =>
              /\ \A k \in PostKeys(p) : ~InSeq(activeSubscriptions', k)
              /\ activeSubscriptions' =
                     SelectSeq(activeSubscriptions, LAMBDA k : k \notin PostKeys(p))]_vars

\* C11: when disconnect() returns, whatever the state it was called in (a second
\* call included), the state is DISCONNECTED, the registry is empty and the service
\* holds no client.
C11_DisconnectResets ==
    [][op' = <<"disconnect">> =>
          /\ connectionState' = "DISCONNECTED"
          /\ activeSubscriptions' = <<>>
          /\ client' = NoClient]_vars

\* C11 witness: disconnect() has just torn down a client that was connected (it is
\* closing), a second call having nothing left to tear down.
C11_Witness ==
    /\ op = <<"disconnect">>
    /\ connectionState = "DISCONNECTED"
    /\ activeSubscriptions = <<>>
    /\ client = NoClient
    /\ \E c \in ClientIds : clients[c].phase = "closing"

\* client.onWebSocketError of some client has just run
TransportErrorRan(o) == \E c \in ClientIds : o = <<"onWebSocketError", c>>

\* C12: once maxReconnectAttempts transport errors have been handled with no
\* onConnect in between (the counter, which counts them, has reached the ceiling),
\* the state is ERROR and no reconnect timer is pending.
C12_CeilingStopsReconnects ==
    [][(TransportErrorRan(op') /\ reconnectAttempts' = maxReconnectAttempts) =>
          connectionState' = "ERROR" /\ reconnectTimers' = 0]_vars

\* C13: the attempt counter is always within 0..maxReconnectAttempts; a transport
\* error adds one to it below the ceiling and, at the ceiling, leaves it there and
\* sets ERROR (the sixth error in a row with ceiling 5); onConnect resets it to 0.
C13_AttemptCounterBounded ==
    /\ [](reconnectAttempts \in 0..maxReconnectAttempts)
    /\ [][(TransportErrorRan(op') /\ UNCHANGED authVars) =>
             IF reconnectAttempts < maxReconnectAttempts
             THEN reconnectAttempts' = reconnectAttempts + 1
             ELSE reconnectAttempts' = maxReconnectAttempts /\ connectionState' = "ERROR"]_vars
    /\ [][(\E c \in ClientIds : op' = <<"onConnect", c>>) => reconnectAttempts' = 0]_vars

\* C13 witness: a transport error was handled with the counter at the ceiling: the
\* state is ERROR and the counter is still maxReconnectAttempts.
C13_Witness ==
    /\ TransportErrorRan(op)
    /\ reconnectAttempts = maxReconnectAttempts
    /\ connectionState = "ERROR"

\* The states of the newest entries of the log
RecordedStates == [i \in 1..Len(connectionEvents) |-> connectionEvents[i].state]

\* C14: when the connected client of the service suffers a transport error, the log
\* continues CONNECTED, RECONNECTING (attempt 1) with nothing in between; the timer's
\* connect() then records CONNECTING and onConnect records CONNECTED with the
\* counter at 0.
C14_DropAndReconnectSequence ==
    /\ [][\A c \in ClientIds :
             (/\ op' = <<"onWebSocketError", c>> /\ UNCHANGED authVars
              /\ c = client /\ Connected(Service) /\ connectionState = "CONNECTED") =>
                 /\ RecordedStates' = <<"CONNECTED", "RECONNECTING">>
                 /\ connectionEvents'[2].reconnectAttempt = 1]_vars
    /\ [][(/\ op' = <<"reconnectTimer">> /\ UNCHANGED authVars
           /\ connectionState = "RECONNECTING" /\ sess.access # NoToken) =>
              RecordedStates' = <<"RECONNECTING", "CONNECTING">>]_vars
    /\ [][\A c \in ClientIds :
             (op' = <<"onConnect", c>> /\ UNCHANGED authVars /\ connectionState = "CONNECTING") =>
                 /\ RecordedStates' = <<"CONNECTING", "CONNECTED">>
                 /\ reconnectAttempts' = 0]_vars

\* C15: disconnect() leaves no reconnect timer pending, and a timer callback that
\* runs after disconnect() (state DISCONNECTED, no client held) starts no attempt:
\* the state stays DISCONNECTED and no client is created.
C15_DisconnectCancelsTimers ==
    /\ [][op' = <<"disconnect">> => reconnectTimers' = 0]_vars
    /\ [][(/\ op' = <<"reconnectTimer">> /\ UNCHANGED authVars
           /\ connectionState = "DISCONNECTED" /\ client = NoClient) =>
              /\ connectionState' = "DISCONNECTED"
              /\ UNCHANGED <<client, clients>>]_vars

\* The per-user topics subscribeToUserTopics subscribes
UserTopicKinds == {"notifications", "karma", "votes", "posts", "comments"}

\* C16: when onConnect of a client that connect() created runs while a user is
\* logged in, the state becomes CONNECTED, the counter 0, and each of the five
\* topics of that user is in the registry with a handler on the client held.
C16_ConnectSubscribesUserTopics ==
    [][\A c \in ClientIds :
          (op' = <<"onConnect", c>> /\ UNCHANGED authVars /\ sess.user # NoUser) =>
              /\ connectionState' = "CONNECTED"
              /\ reconnectAttempts' = 0
              /\ \A kind \in UserTopicKinds :
                     /\ InSeq(activeSubscriptions', USER_TOPICS(kind, sess.user))
                     /\ client' # NoClient
                     /\ InSeq(clients'[client'].subs, USER_TOPICS(kind, sess.user))]_vars

\* C17: subscribeToPost(p) called while the client is not connected changes neither
\* the registry nor the subscriptions of any client, and a later onConnect adds no
\* key of p to the registry or to a client (the request is dropped, not queued).
C17_SubscribeWhileDisconnectedIsDropped ==
    /\ [][\A p \in Posts :
             (op' = <<"subscribeToPost", p>> /\ ~Connected(Service)) =>
                 UNCHANGED <<activeSubscriptions, clients>>]_vars
    /\ [][\A c \in ClientIds, p \in Posts : \A k \in PostKeys(p) :
             op' = <<"onConnect", c>> =>
                 /\ Count(activeSubscriptions', k) = Count(activeSubscriptions, k)
                 /\ \A d \in ClientIds :
                        Count(clients'[d].subs, k) = Count(clients[d].subs, k)]_vars

\* C17 witness: subscribeToPost has just returned with the client still in its
\* handshake and nothing registered.
C17_Witness ==
    /\ \E p \in Posts : op = <<"subscribeToPost", p>>
    /\ client # NoClient /\ clients[client].phase = "connecting"
    /\ activeSubscriptions = <<>>

\* C18: connect(), from the UI or from a reconnect timer, called while the client is
\* not connected and no access token is stored creates no client and leaves the
\* state DISCONNECTED.
C18_ConnectWithoutTokenStaysDisconnected ==
    [][(/\ op' \in {<<"connect">>, <<"reconnectTimer">>} /\ UNCHANGED authVars
        /\ ~Connected(Service) /\ sess.access = NoToken) =>
           /\ UNCHANGED <<client, clients>>
           /\ connectionState' = "DISCONNECTED"]_vars

\* C19: two consecutive entries of the log that differ in state are an edge of the
\* specified state machine (teardown reaches DISCONNECTED from every state), and so
\* is the first entry taken from the initial DISCONNECTED.
C19_OnlySpecifiedEdges ==
    LET Edges ==
            {<<"DISCONNECTED", "CONNECTING">>, <<"CONNECTING", "CONNECTED">>,
             <<"CONNECTING", "ERROR">>, <<"CONNECTED", "DISCONNECTED">>,
             <<"CONNECTED", "RECONNECTING">>, <<"RECONNECTING", "CONNECTING">>,
             <<"RECONNECTING", "ERROR">>}
            \cup {<<st, "DISCONNECTED">> :
                     st \in {"CONNECTING", "CONNECTED", "RECONNECTING", "ERROR"}}
    IN  /\ Len(connectionEvents) = 1 =>
               \/ RecordedStates[1] = "DISCONNECTED"
               \/ <<"DISCONNECTED", RecordedStates[1]>> \in Edges
        /\ Len(connectionEvents) = 2 =>
               \/ RecordedStates[1] = RecordedStates[2]
               \/ <<RecordedStates[1], RecordedStates[2]>> \in Edges

\* Clients that were activated and not deactivated: in their handshake, connected,
\* or waiting to retry
ActiveClients == {c \in ClientIds : clients[c].phase \in {"connecting", "connected", "down"}}

\* C20: at most one client created by connect() is active at any time.
C20_SingleActiveClient == Cardinality(ActiveClients) <= 1

\* C21: after disconnect() (state DISCONNECTED, no client held), onConnect,
\* onStompError or onWebSocketError of a client whose handshake was in flight changes
\* neither the state, nor the registry, nor the counter, and arms no timer.
C21_AbandonedHandshakeIsDiscarded ==
    [][\A c \in ClientIds :
          (/\ op' \in {<<"onConnect", c>>, <<"onStompError", c>>, <<"onWebSocketError", c>>}
           /\ UNCHANGED authVars
           /\ clients[c].phase = "connecting"
           /\ client = NoClient /\ connectionState = "DISCONNECTED") =>
              UNCHANGED <<connectionState, activeSubscriptions, reconnectAttempts,
                          reconnectTimers>>]_vars

\* C22: a callback of the service runs for a message of key k only while k is in the
\* registry: none runs after unsubscribe(k), none for a key never registered.
C22_MessagesOnlyForRegisteredKeys ==
    \A p \in Posts : \A k \in PostKeys(p) :
        op = <<"message", k>> => InSeq(activeSubscriptions, k)

C24_StompErrorIsNotRetried ==
    [][\A c \in ClientIds :
          /\ (op' = <<"onStompError", c>> /\ clients[c].phase # "down" /\ UNCHANGED authVars) =>
                 /\ connectionState' = "ERROR"
                 /\ UNCHANGED <<reconnectAttempts, reconnectTimers>>
          /\ ~(op = <<"onStompError", c>> /\ op' = <<"clientRetries", c>>)]_vars

\* C25: a request is passed to next at most twice: first from idle, then at most
\* once more after a refresh.  A re-dispatched request only ends (response, error
\* or cancel); an error on it starts no refresh and queues it on none.
C25_AtMostOneRedispatch ==
    [][\A r \in Req :
          /\ req'[r].st = "sent" => req[r].st \in {"idle", "sent"}
          /\ req'[r].st \in {"refreshing", "waiting"} =>
                 req[r].st \in {"sent", "refreshing", "waiting"}
          /\ (req[r].st = "retry" /\ req'[r] # req[r]) =>
                 /\ req'[r].st \in {"done", "failed", "cancelled"}
                 /\ RefreshesByRequests' \subseteq RefreshesByRequests
                 /\ UNCHANGED <<waiters, refreshHdr>>
          /\ req[r].st \in {"done", "failed", "cancelled"} => req'[r] = req[r]]_vars

\* C25 witness: a re-dispatched request was answered 401 and failed with it (a 401
\* on the first dispatch never reaches the caller in this chain)
C25_Witness ==
    \E r \in Req :
        /\ chain = "direct"
        /\ req[r].st = "failed" /\ req[r].out = 401
        /\ ~isAuthEndpoint(req[r].url)

\* C26: when a re-dispatched request fails, the error goes to the caller and the
\* session (tokens, user, isAuthenticated) and its refresh timer stay as they were,
\* for the request that started the refresh as for the waiters.
C26_RetryFailureKeepsSession ==
    [][\A r \in Req :
          (req[r].st = "retry" /\ req'[r].st = "failed") =>
              /\ req'[r].out \in {401, 500}
              /\ UNCHANGED <<sess, timer>>]_vars

\* C27: when the caller of the request that started a refresh cancels it while the
\* refresh is in flight, the flag is cleared, and every request that was queued on
\* that refresh eventually stops waiting (it is re-dispatched, fails or is
\* cancelled by its own caller).
C27_WaitersSurviveInitiatorCancel ==
    /\ [][\A o \in Req :
            (req[o].st = "refreshing" /\ req'[o].st = "cancelled") => ~isRefreshing']_vars
    /\ \A r \in Req :
          (req[r].st = "waiting" /\ \E o \in req[r].on : req[o].st = "cancelled")
              ~> (req[r].st # "waiting")

\* C28: while the service is connected, every post key in activeSubscriptions is
\* one the current client holds a live subscription for: a key registered before a
\* drop is, after the reconnect, subscribed again or no longer registered.
C28_RegistryMatchesClient ==
    Connected(Service) =>
        \A p \in Posts : \A k \in PostKeys(p) :
            InSeq(activeSubscriptions, k) => InSeq(clients[client].subs, k)

\* C29: after votes issued one after the other from the list, once no call is in
\* flight the userVote votePost stored is the vote the server holds.
C29_UserVoteMatchesServer ==
    \A p \in Posts :
        (/\ ~overlapped
         /\ posts[p].loaded
         /\ \A v \in CallIds : ~InFlight(v)) =>
            posts[p].userVote = serverVote[p]

\* C30: when a real-time update (or the acknowledgment of another call) has
\* changed the post in the list since votePost took its snapshot and the list shows
\* the score and counts the server holds, this vote included, the acknowledgment
\* keeps them: it does not put back values computed from the snapshot.
C30_AckKeepsConcurrentUpdate ==
    [][\A v \in CallIds :
          LET p == calls[v].postId
              Current(post) == /\ post.score = ServerPost(p).score
                               /\ post.upvoteCount = ServerPost(p).upvoteCount
                               /\ post.downvoteCount = ServerPost(p).downvoteCount
          IN (/\ calls[v].st = "voted" /\ calls'[v].st = "idle"
              /\ posts[p].loaded
              /\ calls[v].raced
              /\ Current(posts[p])) =>
                 Current(posts'[p])]_vars

====
